---------------------------- MODULE Spec2Model ----------------------------
(***************************************************************************)
(* Model of the ADS-B ATC simulator (src/adsb_atc): the Flight record and  *)
(* its step/snapshot methods (model.py), the anomaly injectors             *)
(* (anomalies.py), the geographic projector (utils.py) and the ATCApp tick *)
(* handler, detector and severity classifier (app.py).                     *)
(*                                                                         *)
(* Floats are modelled as scaled integers.  Units:                         *)
(*   lat, lon            1e-7 degree   (events round to 1e-6 = 10 units)   *)
(*   altitude, baro      1e-3 ft       (events round to 0.1 ft = 100)      *)
(*   speed, gs, ias      1e-2 kt       (events round to 0.1 kt = 10)       *)
(*   heading, bearing    0.05 degree   (7200 per turn; events 0.1 = 2)     *)
(*   vrate               1e-2 ft/min   (events round to 0.1 = 10)          *)
(*   turn_rate_dps       1e-2 deg/s                                        *)
(*   bank_deg            0.1 degree                                        *)
(*   qnh_hpa             1e-2 hPa      (events round to 0.1 = 10)          *)
(*   mach                1e-3                                              *)
(*   dt, wall clock      millisecond                                       *)
(*   _event_carry        tenths of an event (see CarryOutcomes)            *)
(* Optional[str] None and the empty string are both the empty sequence;    *)
(* a string is the sequence of its characters.                             *)
(***************************************************************************)
EXTENDS Integers, Sequences, FiniteSets, TLC

---------------------------------------------------------------------------
(* Arithmetic helpers (Python builtins used by the source).                *)

Abs(x) == IF x < 0 THEN -x ELSE x

Min(a, b) == IF a < b THEN a ELSE b

Max(a, b) == IF a > b THEN a ELSE b

\* int(a / b) for b > 0: truncation toward zero.
TruncDiv(a, b) == IF a >= 0 THEN a \div b ELSE -((-a) \div b)

\* round(x, n): x rounded to the nearest multiple of q, ties to the even multiple.
RoundTo(x, q) ==
  LET lo == (x \div q) * q
      r  == x - lo
  IN  IF 2 * r < q THEN lo
      ELSE IF 2 * r > q THEN lo + q
      ELSE IF (lo \div q) % 2 = 0 THEN lo ELSE lo + q

\* floor(a * k / r) for a, k >= 0 and r a positive multiple of 10000,
\* evaluated without leaving 32 bits.
MulDiv(a, k, r) ==
  LET a1 == a \div 10000
      a0 == a % 10000
  IN  (a1 * k + ((a0 * k) \div 10000)) \div (r \div 10000)

\* Largest r with r * r <= x, by bisection on [lo, hi).
RECURSIVE ISqrtIn(_, _, _)
ISqrtIn(x, lo, hi) ==
  IF hi - lo <= 1 THEN lo
  ELSE LET mid == (lo + hi) \div 2
       IN  IF mid * mid <= x THEN ISqrtIn(x, mid, hi) ELSE ISqrtIn(x, lo, mid)

ISqrt(x) == ISqrtIn(x, 0, 46341)

\* 1e6 * sin(d degrees) for d = 0..90.
SinTab ==
  << 0, 17452, 34899, 52336, 69756, 87156, 104528, 121869, 139173, 156434,
     173648, 190809, 207912, 224951, 241922, 258819, 275637, 292372, 309017, 325568,
     342020, 358368, 374607, 390731, 406737, 422618, 438371, 453990, 469472, 484810,
     500000, 515038, 529919, 544639, 559193, 573576, 587785, 601815, 615661, 629320,
     642788, 656059, 669131, 681998, 694658, 707107, 719340, 731354, 743145, 754710,
     766044, 777146, 788011, 798636, 809017, 819152, 829038, 838671, 848048, 857167,
     866025, 874620, 882948, 891007, 898794, 906308, 913545, 920505, 927184, 933580,
     939693, 945519, 951057, 956305, 961262, 965926, 970296, 974370, 978148, 981627,
     984808, 987688, 990268, 992546, 994522, 996195, 997564, 998630, 999391, 999848,
     1000000 >>

\* a * b / 1e6 for |a| <= 1e6 and |b| < 2e9 / 1e3, truncated toward zero.
Mul6(a, b) ==
  LET sgn == IF (a < 0) # (b < 0) THEN -1 ELSE 1
      aa  == Abs(a)
      bb  == Abs(b)
  IN  sgn * ((((aa \div 1000) * bb) + (((aa % 1000) * bb) \div 1000)) \div 1000)

\* The sine table, linearly interpolated inside degree d at fraction f / 1e6.
SinInterp(lo, hi, f) == lo + (((hi - lo) * (f \div 100)) \div 10000)

\* 1e6 * sin of an angle r in [0, 90] degrees (1e-6 degree units).
SinQuad(r) ==
  SinInterp(SinTab[(r \div 1000000) + 1],
            SinTab[Min(90, (r \div 1000000) + 1) + 1],
            r % 1000000)

\* 1e6 * sin of an angle m in [0, 360) degrees.
SinTurn(m) ==
  IF m <= 90000000 THEN SinQuad(m)
  ELSE IF m <= 180000000 THEN SinQuad(180000000 - m)
  ELSE IF m <= 270000000 THEN -SinQuad(m - 180000000)
  ELSE -SinQuad(360000000 - m)

\* 1e6 * math.sin(math.radians(a)) for an angle a in 1e-6 degree.
SinDeg6(a) == SinTurn(a % 360000000)

\* 1e6 * math.cos(math.radians(a))
CosDeg6(a) == SinDeg6(a + 90000000)

\* The angle of a heading (0.05-degree units) in 1e-6 degree.
HdgDeg6(h) == h * 50000

\* math.atan2(y, x) in degrees, brought into [0, 360) as (deg + 360) % 360,
\* in heading units: the quadrant angle a is found by bisection on
\* sin(a) * |x| <= cos(a) * |y| over [lo, hi).
RECURSIVE AtanQuadrant(_, _, _, _)
AtanQuadrant(ay, ax, lo, hi) ==
  IF hi - lo <= 1 THEN lo
  ELSE LET mid == (lo + hi) \div 2
       IN  IF Mul6(SinDeg6(HdgDeg6(mid)), ax) <= Mul6(CosDeg6(HdgDeg6(mid)), ay)
           THEN AtanQuadrant(ay, ax, mid, hi)
           ELSE AtanQuadrant(ay, ax, lo, mid)

\* (deg + 360) % 360 of the angle whose quadrant angle is a.
QuadrantBearing(y, x, a) ==
  IF y >= 0 /\ x >= 0 THEN a % 7200
  ELSE IF y >= 0 THEN 3600 - a
  ELSE IF x < 0 THEN 3600 + a
  ELSE (7200 - a) % 7200

Atan2Bearing(y, x) ==
  QuadrantBearing(y, x, IF x = 0 /\ y = 0 THEN 0
                        ELSE AtanQuadrant(Abs(y), Abs(x), 0, 1801))

\* 1000 * tan(d degrees) for d = 0..89.
TanTab ==
  << 0, 17, 35, 52, 70, 87, 105, 123, 141, 158, 176, 194, 213, 231, 249,
     268, 287, 306, 325, 344, 364, 384, 404, 424, 445, 466, 488, 510, 532, 554,
     577, 601, 625, 649, 675, 700, 727, 754, 781, 810, 839, 869, 900, 933, 966,
     1000, 1036, 1072, 1111, 1150, 1192, 1235, 1280, 1327, 1376, 1428, 1483, 1540, 1600, 1664,
     1732, 1804, 1881, 1963, 2050, 2145, 2246, 2356, 2475, 2605, 2747, 2904, 3078, 3271, 3487,
     3732, 4011, 4331, 4705, 5145, 5671, 6314, 7115, 8144, 9514, 11430, 14301, 19081, 28636, 57290 >>

\* The largest d in 0..89 with tan(d degrees) <= q / 1000, scanning up from d.
RECURSIVE AtanScan(_, _)
AtanScan(q, d) ==
  IF d >= 89 THEN 89
  ELSE IF TanTab[d + 2] > q THEN d
  ELSE AtanScan(q, d + 1)

\* math.degrees(math.atan2(y, x)) for x > 0, in tenths of a degree at
\* whole-degree resolution, signed as y (|y| below 2,000,000).
AtanDeg10(y, x) ==
  LET d == AtanScan((Abs(y) * 1000) \div x, 0)
  IN  IF y >= 0 THEN 10 * d ELSE -(10 * d)

---------------------------------------------------------------------------
(* Strings: the tags of app.py and anomalies.py, spelled out.              *)

T_250_10K == <<"2","5","0","@","1","0","k">>
T_VRATE_ABN == <<"V","R","A","T","E","_","A","B","N">>
T_ALT_MISMATCH == <<"A","L","T","_","M","I","S","M","A","T","C","H">>
T_LOW_IAS_HIGH_ALT == <<"L","O","W","_","I","A","S","_","H","I","G","H","_","A","L","T">>
T_LOW_QOS == <<"L","O","W","_","Q","O","S">>
T_EMERGENCY == <<"E","M","E","R","G","E","N","C","Y">>
T_SPEED_JUMP == <<"S","P","E","E","D","_","J","U","M","P">>
T_ALT_NEG == <<"A","L","T","<","0">>
T_SPD == <<"S","P","D",">","1","5","0","0">>
T_DUP_ICAO == <<"D","U","P"," ","I","C","A","O">>
T_TELEPORT == <<"T","E","L","E","P","O","R","T">>

\* sep.join(parts)
RECURSIVE Join(_, _)
Join(parts, sep) ==
  IF parts = << >> THEN << >>
  ELSE IF Len(parts) = 1 THEN parts[1]
  ELSE parts[1] \o sep \o Join(Tail(parts), sep)

\* tok in text (substring test)
Contains(text, tok) ==
  \E k \in 0..(Len(text) - Len(tok)) :
     \A j \in 1..Len(tok) : text[k + j] = tok[j]

\* A rule chain that stops at the first rule that matches.
Matching_First(rules) ==
  IF \E i \in 1..Len(rules) : rules[i][1]
  THEN << rules[CHOOSE i \in 1..Len(rules) :
                  rules[i][1] /\ \A j \in 1..(i - 1) : ~rules[j][1]][2] >>
  ELSE << >>

\* [x for (cond, x) in rules if cond], in order
RECURSIVE Matching(_)
Matching(rules) ==
  IF rules = << >> THEN << >>
  ELSE (IF rules[1][1] THEN << rules[1][2] >> ELSE << >>) \o Matching(Tail(rules))

---------------------------------------------------------------------------
(* model.py: class Flight.                                                 *)

\* Python None where a number is optional.
None == -2000000000

\* Flight.trail = deque(maxlen=60)
TrailCap == 60

\* Flight.__post_init__: limits by aircraft type (0.1 degree, 0.01 deg/s).
MaxBankOf(ac_type) == IF ac_type = "E190" THEN 200 ELSE 250

MaxTurnRateOf(ac_type) == IF ac_type = "E190" THEN 250 ELSE 300

\* A barometric altitude without the QNH offset.
BaroOf_NoOffset(altitude, qnh_hpa) == altitude

\* self.altitude + (1013.25 - self.qnh_hpa) * 27.0
BaroOf(altitude, qnh_hpa) == altitude + (101325 - qnh_hpa) * 270

\* self.altitude < 50 and self.speed < 50
OnGroundOf(altitude, speed) == altitude < 50000 /\ speed < 5000

\* The dataclass constructor followed by __post_init__.
NewFlight(icao, lat, lon, altitude, speed, heading, qnh_hpa, squawk, ac_type) ==
  [ icao |-> icao, callsign |-> icao, lat |-> lat, lon |-> lon,
    altitude |-> altitude, speed |-> speed, heading |-> heading,
    vrate |-> 0, anomaly |-> << >>, trail |-> << >>,
    bank_deg |-> 0, turn_rate_dps |-> 0,
    baro_altitude |-> BaroOf(altitude, qnh_hpa), qnh_hpa |-> qnh_hpa,
    squawk |-> squawk, nic |-> 8, nacp |-> 9, sil |-> 3,
    on_ground |-> OnGroundOf(altitude, speed), last_heading |-> heading,
    route |-> << >>, wp_index |-> 0, vnav_target_alt |-> None,
    ac_type |-> ac_type, max_bank_deg |-> MaxBankOf(ac_type),
    max_turn_rate_dps |-> MaxTurnRateOf(ac_type), gs_knots |-> 0 ]

\* A heading left as it is, without the reduction modulo 360.
Mod360_Off(h) == h

\* x % 360 on a heading.
Mod360(h) == h % 7200

\* A steering that takes the plain difference of the two angles, unwrapped.
SteerHeading_NoWrap(fl, dt, lnav_bearing, drift) ==
  IF lnav_bearing # None
  THEN LET diff       == lnav_bearing - fl.heading
           max_change == (fl.max_turn_rate_dps * dt) \div 5000
           change     == Max(-max_change, Min(max_change, diff))
       IN  Mod360(fl.heading + change)
  ELSE Mod360(fl.heading + drift)

\* LNAV branch of Flight.step: the heading after steering toward lnav_bearing,
\* or after the random drift when there is no commanded bearing.
SteerHeading(fl, dt, lnav_bearing, drift) ==
  IF lnav_bearing # None
  THEN LET diff       == ((lnav_bearing - fl.heading + 10800) % 7200) - 3600
           max_change == (fl.max_turn_rate_dps * dt) \div 5000
           change     == Max(-max_change, Min(max_change, diff))
       IN  Mod360(fl.heading + change)
  ELSE Mod360(fl.heading + drift)

\* A vertical shaping that takes the error as altitude minus target.
ShapeVrate_Reversed(fl, vnav_target_alt) ==
  IF vnav_target_alt # None
  THEN LET delta == fl.altitude - vnav_target_alt
       IN  IF Abs(delta) > 100000
           THEN LET sign == IF delta > 0 THEN 1 ELSE -1
                IN  IF Abs(delta) < 1000000
                    THEN sign * ((3 * Abs(delta)) \div 20)
                    ELSE sign * 150000
           ELSE 0
  ELSE fl.vrate

\* A vertical shaping without the deceleration on approach.
ShapeVrate_NoScale(fl, vnav_target_alt) ==
  IF vnav_target_alt # None
  THEN IF Abs(vnav_target_alt - fl.altitude) > 100000
       THEN IF vnav_target_alt > fl.altitude THEN 150000 ELSE -150000
       ELSE 0
  ELSE fl.vrate

\* VNAV branch of Flight.step: the vertical rate after shaping.
ShapeVrate(fl, vnav_target_alt) ==
  IF vnav_target_alt # None
  THEN LET delta == vnav_target_alt - fl.altitude
       IN  IF Abs(delta) > 100000
           THEN LET sign == IF delta > 0 THEN 1 ELSE -1
                IN  IF Abs(delta) < 1000000
                    THEN sign * ((3 * Abs(delta)) \div 20)
                    ELSE sign * 150000
           ELSE 0
  ELSE fl.vrate

\* A limiter that lets every value through.
Clamp_Off(value, limit) == value

\* max(-limit, min(limit, value))
Clamp(value, limit) == Max(-limit, Min(limit, value))

\* Turn rate of Flight.step: wrapped heading change since the last step over
\* dt, clamped to the aircraft limit.
TurnRateOf(fl, heading, dt) ==
  LET dh0 == heading - fl.last_heading
      dh  == IF dh0 > 3600 THEN dh0 - 7200
             ELSE IF dh0 < -3600 THEN dh0 + 7200 ELSE dh0
  IN  Clamp(TruncDiv(dh * 5000, dt), fl.max_turn_rate_dps)

\* Bank angle of Flight.step: atan2(v_mps * omega_rad, g) in degrees, clamped.
\* v * omega / g = speed * turn_rate * (0.514444 * pi / 180 / 9.80665).
BankOf(fl, turn_rate_dps) ==
  Clamp(AtanDeg10(TruncDiv(fl.speed * turn_rate_dps, 100), 109220),
        fl.max_bank_deg)

\* append on a deque without maxlen.
TrailAppend_Unbounded(trail, p) == Append(trail, p)

\* deque.append on a deque with maxlen = TrailCap.
TrailAppend(trail, p) ==
  IF Len(trail) >= TrailCap THEN Append(Tail(trail), p) ELSE Append(trail, p)

\* The wind vector: the direction the wind blows to is wind_dir_deg + 180.
WindX(wind_dir_deg, wind_speed_kt) ==
  IF wind_dir_deg # None /\ wind_speed_kt # 0
  THEN Mul6(CosDeg6(HdgDeg6((wind_dir_deg + 3600) % 7200)), wind_speed_kt)
  ELSE 0

WindY(wind_dir_deg, wind_speed_kt) ==
  IF wind_dir_deg # None /\ wind_speed_kt # 0
  THEN Mul6(SinDeg6(HdgDeg6((wind_dir_deg + 3600) % 7200)), wind_speed_kt)
  ELSE 0

\* Flight.step from the turn-rate computation on: the record step leaves.
StepRecord(fl, heading, vrate, gs, lat, lon, alt, turn) ==
  [ fl EXCEPT
      !.heading = heading, !.vrate = vrate, !.gs_knots = gs,
      !.lat = lat, !.lon = lon, !.altitude = alt,
      !.turn_rate_dps = turn, !.bank_deg = BankOf(fl, turn),
      !.last_heading = heading,
      !.baro_altitude = BaroOf(alt, fl.qnh_hpa),
      !.on_ground = OnGroundOf(alt, fl.speed),
      !.trail = TrailAppend(fl.trail, << lat, lon >>) ]

\* Flight.step from the ground-speed vector (gs_vx, gs_vy) on: dx goes to lon,
\* dy to lat.
StepMove(fl, dt, heading, vrate, gs_vx, gs_vy) ==
  StepRecord(fl, heading, vrate,
             ISqrt(gs_vx * gs_vx + gs_vy * gs_vy),
             fl.lat + TruncDiv(gs_vy * dt * 26, 1000),
             fl.lon + TruncDiv(gs_vx * dt * 26, 1000),
             fl.altitude + TruncDiv(vrate * dt, 6000),
             TurnRateOf(fl, heading, dt))

\* Flight.step once heading and vrate are settled: vx = cos(heading) * speed,
\* vy = sin(heading) * speed, plus the wind.
StepSteered(fl, dt, wind_dir_deg, wind_speed_kt, heading, vrate) ==
  StepMove(fl, dt, heading, vrate,
           Mul6(CosDeg6(HdgDeg6(heading)), fl.speed) + WindX(wind_dir_deg, wind_speed_kt),
           Mul6(SinDeg6(HdgDeg6(heading)), fl.speed) + WindY(wind_dir_deg, wind_speed_kt))

\* Flight.step(dt, wind_dir_deg, wind_speed_kt, lnav_bearing, vnav_target_alt);
\* drift is the draw of random.uniform(-1.0, 1.0).
StepFlight(fl, dt, wind_dir_deg, wind_speed_kt, lnav_bearing, vnav_target_alt, drift) ==
  StepSteered(fl, dt, wind_dir_deg, wind_speed_kt,
              SteerHeading(fl, dt, lnav_bearing, drift),
              ShapeVrate(fl, vnav_target_alt))

\* 10 * speed of sound (m/s) of the two-layer ISA by 1000-ft band, 0..45.
SoundTab ==
  << 3403, 3391, 3379, 3368, 3356, 3344, 3332, 3320, 3308, 3296, 3284, 3272, 3260, 3247, 3235,
     3223, 3210, 3198, 3185, 3173, 3160, 3148, 3135, 3122, 3110, 3097, 3084, 3071, 3058, 3045,
     3032, 3019, 3005, 2992, 2979, 2965, 2952, 2951, 2951, 2951, 2951, 2951, 2951, 2951, 2951,
     2951 >>

\* 1000 * sqrt(max(0.1, sigma)) by 1000-ft band, 0..45.
SqrtSigmaTab ==
  << 1000, 985, 971, 957, 942, 928, 914, 900, 887, 873, 859, 846, 833, 819, 806,
     793, 780, 768, 755, 742, 730, 718, 705, 693, 681, 669, 658, 646, 634, 623,
     612, 600, 589, 578, 567, 557, 546, 545, 545, 545, 545, 545, 545, 545, 545,
     545 >>

\* The altitude band of Flight.snapshot's atmosphere: alt_m = max(0, altitude
\* * 0.3048), constant above 11000 m.
IsaBand(altitude) == Max(0, Min(45, altitude \div 1000000))

\* A Mach number published in hundredths.
MachOf_Coarse(altitude, speed) ==
  Max(0, (((speed * 5144) \div (SoundTab[IsaBand(altitude) + 1] * 10) + 50) \div 100) * 10)

\* mach = max(0.0, tas_ms / max(1e-6, a)) as the event carries it,
\* round(mach, 3): the quotient in 1e-4, then to the nearest thousandth.
MachOf(altitude, speed) ==
  Max(0, ((speed * 5144) \div (SoundTab[IsaBand(altitude) + 1] * 10) + 5) \div 10)

\* ias_knots = tas * sqrt(max(0.1, sigma))
IasOf(altitude, speed) == (speed * SqrtSigmaTab[IsaBand(altitude) + 1]) \div 1000

\* Flight.snapshot(); ts stands for now_iso().
Snapshot(fl, ts) ==
  [ timestamp |-> ts, icao |-> fl.icao, callsign |-> fl.callsign,
    lat |-> RoundTo(fl.lat, 10), lon |-> RoundTo(fl.lon, 10),
    altitude |-> RoundTo(fl.altitude, 100),
    speed_knots |-> RoundTo(fl.speed, 10),
    gs_knots |-> RoundTo(fl.gs_knots, 10),
    heading |-> RoundTo(fl.heading, 2),
    vertical_rate |-> RoundTo(fl.vrate, 10),
    baro_altitude |-> RoundTo(fl.baro_altitude, 100),
    ias_knots |-> RoundTo(IasOf(fl.altitude, fl.speed), 10),
    mach |-> MachOf(fl.altitude, fl.speed),
    bank_deg |-> fl.bank_deg, turn_rate_dps |-> fl.turn_rate_dps,
    qnh_hpa |-> RoundTo(fl.qnh_hpa, 10),
    nic |-> fl.nic, nacp |-> fl.nacp, sil |-> fl.sil,
    squawk |-> fl.squawk, on_ground |-> fl.on_ground,
    anomaly |-> fl.anomaly, source |-> "simulator" ]

---------------------------------------------------------------------------
(* anomalies.py: each injector returns the pair << evt, fl >> it leaves.   *)

\* A negative-altitude fault that also negates the flight's own altitude.
a_alt_neg_OnFlight(evt, fl) ==
  << [evt EXCEPT !.altitude = -Abs(evt.altitude)],
     [fl EXCEPT !.altitude = -Abs(fl.altitude), !.anomaly = T_ALT_NEG] >>

\* evt["altitude"] = -abs(evt["altitude"]); fl.anomaly = "ALT<0"
a_alt_neg(evt, fl) ==
  << [evt EXCEPT !.altitude = -Abs(evt.altitude)],
     [fl EXCEPT !.anomaly = T_ALT_NEG] >>

\* spd is the draw of random.uniform(1500, 3000).
a_speed_impossible(evt, fl, spd) ==
  << [evt EXCEPT !.speed_knots = spd],
     [fl EXCEPT !.anomaly = T_SPD] >>

a_dup_icao(evt, fl, dup_with) ==
  << [evt EXCEPT !.icao = dup_with],
     [fl EXCEPT !.anomaly = T_DUP_ICAO] >>

\* A teleport that rewrites the event only and tags the flight.
a_teleport_EventOnly(evt, fl, tlat, tlon) ==
  << [evt EXCEPT !.lat = tlat, !.lon = tlon],
     [fl EXCEPT !.anomaly = T_TELEPORT] >>

\* tlat, tlon are the draws of random.uniform(-60, 80), random.uniform(-180, 180).
a_teleport(evt, fl, tlat, tlon) ==
  << [evt EXCEPT !.lat = tlat, !.lon = tlon],
     [fl EXCEPT !.lat = tlat, !.lon = tlon, !.trail = << >>,
                !.anomaly = T_TELEPORT] >>

---------------------------------------------------------------------------
(* utils.py                                                                *)

MAP_LAT_MIN == 300000000

MAP_LAT_MAX == 600000000

MAP_LON_MIN == -200000000

MAP_LON_MAX == 400000000

\* bearing_to(lat1, lon1, lat2, lon2), in heading units; angles are taken
\* at 1e-6 degree.
bearing_to(lat1, lon1, lat2, lon2) ==
  LET phi1 == TruncDiv(lat1, 10)
      phi2 == TruncDiv(lat2, 10)
      dlon == TruncDiv(lon2, 10) - TruncDiv(lon1, 10)
      y    == Mul6(SinDeg6(dlon), CosDeg6(phi2))
      x    == Mul6(CosDeg6(phi1), SinDeg6(phi2))
              - Mul6(Mul6(SinDeg6(phi1), CosDeg6(phi2)), CosDeg6(dlon))
  IN  Atan2Bearing(y, x)

\* geo_to_grid(lat, lon, rows, cols) -> << y, x >>
geo_to_grid(lat, lon, rows, cols) ==
  LET clat == Max(MAP_LAT_MIN, Min(MAP_LAT_MAX, lat))
      clon == Max(MAP_LON_MIN, Min(MAP_LON_MAX, lon))
      y    == MulDiv(MAP_LAT_MAX - clat, rows - 2, MAP_LAT_MAX - MAP_LAT_MIN) + 1
      x    == MulDiv(clon - MAP_LON_MIN, cols - 2, MAP_LON_MAX - MAP_LON_MIN) + 1
  IN  << y, x >>

---------------------------------------------------------------------------
(* app.py: detector and severity classifier.  cache is ATCApp.last_events, *)
(* a function whose domain is the set of identifiers seen so far.          *)

\* The rule list with the overspeed threshold at 250 kt instead of 260 kt.
DetectTags_250(evt, cache, icao) ==
  Matching(<<
    << evt.baro_altitude < 10000000 /\ evt.ias_knots > 25000, T_250_10K >>,
    << Abs(evt.vertical_rate) > 600000, T_VRATE_ABN >>,
    << Abs(evt.altitude - evt.baro_altitude) > 400000, T_ALT_MISMATCH >>,
    << evt.altitude > 20000000 /\ evt.ias_knots < 14000, T_LOW_IAS_HIGH_ALT >>,
    << evt.nic < 5 \/ evt.nacp < 7 \/ evt.sil < 2, T_LOW_QOS >>,
    << evt.squawk \in {"7500", "7600", "7700"}, T_EMERGENCY >>,
    << icao \in DOMAIN cache
         /\ Abs(evt.speed_knots - cache[icao].speed_knots) > 18000,
       T_SPEED_JUMP >> >>)

\* A detector whose speed-jump rule fires at 180 kt already.
DetectTags_Jump180(evt, cache, icao) ==
  Matching(<<
    << evt.baro_altitude < 10000000 /\ evt.ias_knots > 26000, T_250_10K >>,
    << Abs(evt.vertical_rate) > 600000, T_VRATE_ABN >>,
    << Abs(evt.altitude - evt.baro_altitude) > 400000, T_ALT_MISMATCH >>,
    << evt.altitude > 20000000 /\ evt.ias_knots < 14000, T_LOW_IAS_HIGH_ALT >>,
    << evt.nic < 5 \/ evt.nacp < 7 \/ evt.sil < 2, T_LOW_QOS >>,
    << evt.squawk \in {"7500", "7600", "7700"}, T_EMERGENCY >>,
    << icao \in DOMAIN cache
         /\ Abs(evt.speed_knots - cache[icao].speed_knots) >= 18000,
       T_SPEED_JUMP >> >>)

\* ATCApp._detect_and_mark_anomalies: the list `anomalies`.
DetectTags(evt, cache, icao) ==
  Matching(<<
    << evt.baro_altitude < 10000000 /\ evt.ias_knots > 26000, T_250_10K >>,
    << Abs(evt.vertical_rate) > 600000, T_VRATE_ABN >>,
    << Abs(evt.altitude - evt.baro_altitude) > 400000, T_ALT_MISMATCH >>,
    << evt.altitude > 20000000 /\ evt.ias_knots < 14000, T_LOW_IAS_HIGH_ALT >>,
    << evt.nic < 5 \/ evt.nacp < 7 \/ evt.sil < 2, T_LOW_QOS >>,
    << evt.squawk \in {"7500", "7600", "7700"}, T_EMERGENCY >>,
    << icao \in DOMAIN cache
         /\ Abs(evt.speed_knots - cache[icao].speed_knots) > 18000,
       T_SPEED_JUMP >> >>)

\* ATCApp._detect_and_mark_anomalies: the pair << evt, fl >> it leaves.
DetectAndMark(fl, evt, cache) ==
  LET anomalies == DetectTags(evt, cache, fl.icao)
      tag       == Join(anomalies, << ";" >>)
  IN  IF anomalies # << >>
      THEN << [evt EXCEPT !.anomaly = tag], [fl EXCEPT !.anomaly = tag] >>
      ELSE << evt, fl >>

\* A classifier that looks for the warn tokens before the critical ones.
SeverityOf_WarnFirst(anomaly_text) ==
  IF anomaly_text = << >> THEN "None"
  ELSE IF \E t \in {T_250_10K, T_ALT_MISMATCH, T_LOW_QOS, T_SPEED_JUMP, T_ALT_NEG,
                     T_SPD, T_DUP_ICAO, T_TELEPORT} :
             Contains(anomaly_text, t)
       THEN "warn"
       ELSE IF \E t \in {T_EMERGENCY, T_LOW_IAS_HIGH_ALT, T_VRATE_ABN} :
                  Contains(anomaly_text, t)
            THEN "critical"
            ELSE "warn"

\* A classifier that gives no severity to a text without a known token.
SeverityOf_KnownOnly(anomaly_text) ==
  IF \E t \in {T_EMERGENCY, T_LOW_IAS_HIGH_ALT, T_VRATE_ABN} : Contains(anomaly_text, t)
  THEN "critical"
  ELSE IF \E t \in {T_250_10K, T_ALT_MISMATCH, T_LOW_QOS, T_SPEED_JUMP, T_ALT_NEG,
                     T_SPD, T_DUP_ICAO, T_TELEPORT} :
             Contains(anomaly_text, t)
       THEN "warn"
       ELSE "None"

\* ATCApp._severity_of
SeverityOf(anomaly_text) ==
  IF anomaly_text = << >> THEN "None"
  ELSE IF \E t \in {T_EMERGENCY, T_LOW_IAS_HIGH_ALT, T_VRATE_ABN} :
             Contains(anomaly_text, t)
       THEN "critical"
       ELSE "warn"

---------------------------------------------------------------------------
(* State.                                                                  *)

VARIABLES
  \* ATCApp fields (app.py __init__)
  rate, duration, anomaly_kinds, anomalies_enabled, paused, emitted,
  start_ts, dup_target, flights, event_carry, last_events,
  wind_dir_deg, wind_speed_kt, last_wind_update, last_inject_ts,
  \* the exporter collaborator: number of events forwarded, and the last one
  exported,
  \* the process: time.time(), whether exit() was requested, and the position
  \* of the one timer callback: pc, and _tick's locals now, events_this_tick, i
  clock, exited, pc, tick,
  \* the number of timer callbacks still to be explored
  budget,
  \* observers: the order of flight advancements, the events of a run of
  \* consecutive unpaused ticks, and what the last advancement did
  adv_log, win, last_adv,
  \* direct calls of the detector / classifier, of geo_to_grid and of the
  \* Flight methods on chosen inputs
  det, grid, unit,
  \* direct calls of the exporters (exporters.py) and of Flight.snapshot's
  \* atmosphere on chosen inputs
  exp, atm

appVars == << rate, duration, anomaly_kinds, anomalies_enabled, paused, emitted,
              start_ts, dup_target, flights, event_carry, last_events,
              wind_dir_deg, wind_speed_kt, last_wind_update, last_inject_ts,
              exported, clock, exited, pc, tick, budget, adv_log, win, last_adv >>

vars == << appVars, det, grid, unit, exp, atm >>

---------------------------------------------------------------------------
(* Direct calls of the pure functions on inputs drawn from bounded sets.   *)

\* A flight as constructed, used as the subject of the direct calls.
BaseFlight == NewFlight("A1", 450000000, 50000000, 9000000, 30000, 0, 101325, "7000", "A320")

\* Events handed to the detector: a snapshot with the rule inputs overridden.
DetEvents ==
  { [Snapshot(BaseFlight, 0) EXCEPT
       !.baro_altitude = b, !.ias_knots = v, !.squawk = q, !.altitude = a,
       !.vertical_rate = vr, !.nic = n, !.speed_knots = sp] :
    b \in {9000000, 9999900, 10000000, 25000000},
    v \in {13990, 25500, 26000, 26010, 30000},
    q \in {"7000", "7500", "7600", "7700"},
    a \in {9000000, 25000000},
    vr \in {0, 600010},
    n \in {4, 8},
    sp \in {30000, 48010} }

\* last_events as the detector may find it: empty, holding an earlier event
\* of the flight (at 300.0 or 300.1 kt), or holding another flight's only.
DetCaches ==
  { << >> }
  \cup { ("A1" :> [Snapshot(BaseFlight, 0) EXCEPT !.speed_knots = sp]) :
          sp \in {30000, 30010} }
  \cup { ("B2" :> [Snapshot(BaseFlight, 0) EXCEPT !.icao = "B2", !.speed_knots = 0]) }

\* fl.anomaly as the detector may find it: None, an injector's tag, or a text
\* that holds no known token.
DetFlightTags == { << >>, T_TELEPORT, << "?" >> }

NoDet == [phase |-> "off", fl |-> BaseFlight, evt |-> Snapshot(BaseFlight, 0),
          input |-> Snapshot(BaseFlight, 0), cache |-> << >>, sev |-> "None"]

\* self._detect_and_mark_anomalies(fl, evt)
DetectCall ==
  /\ det.phase = "new"
  /\ LET r == DetectAndMark(det.fl, det.evt, det.cache)
     IN  det' = [det EXCEPT !.phase = "detected", !.evt = r[1], !.fl = r[2]]
  /\ UNCHANGED << appVars, grid, unit, exp, atm >>

\* _push_table: an_text = last_evt.get("anomaly") or fl.anomaly or "";
\* severity = self._severity_of(an_text)
SeverityCall ==
  /\ det.phase = "detected"
  /\ LET an_text == IF det.evt.anomaly # << >> THEN det.evt.anomaly
                    ELSE det.fl.anomaly
     IN  det' = [det EXCEPT !.phase = "classified", !.sev = SeverityOf(an_text)]
  /\ UNCHANGED << appVars, grid, unit, exp, atm >>

\* Flight.snapshot() of one flight at two true airspeeds.
NoAtm == [phase |-> "off", altitude |-> 0, tas1 |-> 0, tas2 |-> 0, m1 |-> 0, m2 |-> 0]

AtmAlts == {0, 3500000, 9000000, 35000000, 36500000, 41000000}

AtmSpeeds == {-10000, -50, 0, 10, 25000, 30000, 30010, 30050, 30100, 35000, 150000}

SnapshotCall ==
  /\ atm.phase = "new"
  /\ atm' = [atm EXCEPT
               !.phase = "done",
               !.m1 = Snapshot([BaseFlight EXCEPT !.altitude = atm.altitude,
                                                  !.speed = atm.tas1], 0).mach,
               !.m2 = Snapshot([BaseFlight EXCEPT !.altitude = atm.altitude,
                                                  !.speed = atm.tas2], 0).mach]
  /\ UNCHANGED << appVars, det, grid, unit, exp >>

MaxRows == 7

MaxCols == 7

GridLats == {250000000, 300000000, 300000010, 450000000, 599999990, 600000000, 650000000}

GridLons == {-250000000, -200000000, 100000000, 399999990, 400000000, 450000000}

NoGrid == [phase |-> "off", lat |-> 0, lon |-> 0, rows |-> 3, cols |-> 3,
           y |-> 0, x |-> 0]

\* y, x = geo_to_grid(lat, lon, height, width)
GridCall ==
  /\ grid.phase = "new"
  /\ LET c == geo_to_grid(grid.lat, grid.lon, grid.rows, grid.cols)
     IN  grid' = [grid EXCEPT !.phase = "done", !.y = c[1], !.x = c[2]]
  /\ UNCHANGED << appVars, det, unit, exp, atm >>

---------------------------------------------------------------------------
(* exporters.py.  A file handle opened with buffering=1 holds the text     *)
(* written since the last newline in `pending`; `lines` is what reached    *)
(* the file.  An operation yields the exporter it leaves and whether it    *)
(* raised.                                                                 *)

\* JsonlExporter.__init__
NewJsonl == [closed |-> FALSE, pending |-> << >>, lines |-> << >>]

\* ElasticTemplateExporter.__init__ for a configuration
NewElastic(enabled, batch_size, emit_placeholders) ==
  [ enabled |-> enabled, batch_size |-> batch_size,
    emit_placeholders |-> emit_placeholders,
    buffer |-> << >>, warned |-> FALSE, stderr |-> 0 ]

\* JsonlExporter.emit: write of one line; the newline flushes the line buffer.
\* A write on a closed file raises ValueError.
JsonlEmit(j, event) ==
  IF j.closed THEN [to |-> j, raised |-> TRUE]
  ELSE [to |-> [j EXCEPT !.lines = j.lines \o j.pending \o << event >>,
                         !.pending = << >>],
        raised |-> FALSE]

\* JsonlExporter.close: file.close() flushes and closes, and is a no-op on a
\* closed file; any exception is swallowed.
JsonlClose(j) ==
  IF j.closed THEN j
  ELSE [j EXCEPT !.lines = j.lines \o j.pending, !.pending = << >>,
                 !.closed = TRUE]

\* A close that keeps what the buffer holds.
NotifyPlaceholder_Keep(e) == e

\* ElasticTemplateExporter._notify_placeholder
NotifyPlaceholder(e) ==
  IF ~(e.emit_placeholders /\ ~e.warned)
  THEN [e EXCEPT !.buffer = << >>]
  ELSE [e EXCEPT !.warned = TRUE, !.stderr = e.stderr + 1, !.buffer = << >>]

\* ElasticTemplateExporter.emit once the event is appended.
ElasticBatch(e) ==
  IF Len(e.buffer) >= Max(1, e.batch_size) THEN NotifyPlaceholder(e) ELSE e

\* ElasticTemplateExporter.emit
ElasticEmit(e, event) ==
  IF ~e.enabled THEN e
  ELSE ElasticBatch([e EXCEPT !.buffer = Append(e.buffer, event)])

\* ElasticTemplateExporter.close
ElasticClose(e) == IF e.buffer # << >> THEN NotifyPlaceholder(e) ELSE e

\* MultiExporter.emit over [JsonlExporter, ElasticTemplateExporter]: an
\* exception of the first exporter leaves the second one untouched.
MultiEmitNext(r, e, event) ==
  [ jsonl |-> r.to, raised |-> r.raised,
    elastic |-> IF r.raised THEN e ELSE ElasticEmit(e, event) ]

MultiEmit(j, e, event) == MultiEmitNext(JsonlEmit(j, event), e, event)

\* MultiExporter.close
MultiClose(j, e) ==
  [ jsonl |-> JsonlClose(j), elastic |-> ElasticClose(e), raised |-> FALSE ]

\* The exporter under call: kind is the class ("jsonl", "elastic", "multi");
\* last is the last call made, raised whether it raised.
MaxEmits == 3

MaxCloses == 2

NoExp == [ phase |-> "off", kind |-> "multi", jsonl |-> NewJsonl,
           elastic |-> NewElastic(FALSE, 200, TRUE),
           emits |-> 0, closes |-> 0, last |-> "new", raised |-> FALSE ]

\* exporter.emit(event)
EmitCall(event) ==
  /\ exp.phase = "run"
  /\ exp.emits < MaxEmits
  /\ \E r \in { MultiEmit(exp.jsonl, exp.elastic, event) } :
       exp' = [ exp EXCEPT
                  !.jsonl   = IF exp.kind = "elastic" THEN exp.jsonl ELSE r.jsonl,
                  !.elastic = IF exp.kind = "jsonl" THEN exp.elastic
                              ELSE IF exp.kind = "elastic"
                                   THEN ElasticEmit(exp.elastic, event)
                                   ELSE r.elastic,
                  !.raised  = exp.kind # "elastic" /\ r.raised,
                  !.emits   = exp.emits + 1,
                  !.last    = "emit" ]
  /\ UNCHANGED << appVars, det, grid, unit, atm >>

\* exporter.close()
CloseCall ==
  /\ exp.phase = "run"
  /\ exp.closes < MaxCloses
  /\ \E r \in { MultiClose(exp.jsonl, exp.elastic) } :
       exp' = [ exp EXCEPT
                  !.jsonl   = IF exp.kind = "elastic" THEN exp.jsonl ELSE r.jsonl,
                  !.elastic = IF exp.kind = "jsonl" THEN exp.elastic ELSE r.elastic,
                  !.raised  = r.raised,
                  !.closes  = exp.closes + 1,
                  !.last    = "close" ]
  /\ UNCHANGED << appVars, det, grid, unit, atm >>

---------------------------------------------------------------------------
(* app.py: ATCApp.                                                         *)

\* self.tick_interval = 0.1
TickInterval == 100

\* self._inject_cooldown_sec = 12.0
InjectCooldown == 12000

\* time.time() at construction.
Epoch == 1000000

\* Longest run of ticks the observer `win` remembers.
MaxWindow == 100

\* Largest rate the + key is followed to (the code stops at 200).
MaxRate == 16

\* Twice the configured rate per tick.
RatePerTick_Double(r) == r * 2

\* self.rate * self.tick_interval, in tenths of an event.
RatePerTick(r) == r

\* An accumulator that never subtracts the emitted events from the carry.
CarryOutcomes_NoSubtract(carry, r) ==
  { [events |-> (carry + RatePerTick(r)) \div 10, carry |-> carry + RatePerTick(r)] }

\* self._event_carry += self.rate * self.tick_interval;
\* events_this_tick = int(self._event_carry);
\* self._event_carry -= events_this_tick
\* The carry is a binary float: a sum that is a whole number of events in exact
\* arithmetic can come out just below it (ten times 0.1 is 0.9999999999999999),
\* so int() then yields one event fewer and the carry keeps the value 10
\* ("just below one event"); both outcomes are allowed there.  Sums of whole
\* numbers are exact.
CarryOutcomes(carry, r) ==
  LET s == carry + RatePerTick(r)
  IN  IF r = 0 THEN { [events |-> 0, carry |-> carry] }
      ELSE IF s % 10 # 0 THEN { [events |-> s \div 10, carry |-> s % 10] }
      ELSE IF carry = 0 /\ RatePerTick(r) % 10 = 0
           THEN { [events |-> s \div 10, carry |-> 0] }
           ELSE { [events |-> s \div 10, carry |-> 0],
                  [events |-> (s \div 10) - 1, carry |-> 10] }

\* A tick that keeps the computed count as it is.
ForceOne_Off(events, r) == events

\* if events_this_tick == 0 and self.rate > 0: events_this_tick = 1
ForceOne(events, r) == IF events = 0 /\ r > 0 THEN 1 ELSE events

\* dict.get(key, default)
Get(d, key, default) == IF key \in DOMAIN d THEN d[key] ELSE default

\* d[key] = value
Put(d, key, value) ==
  [k \in (DOMAIN d) \cup {key} |-> IF k = key THEN value ELSE d[k]]

\* The last n elements of a sequence.
LastN(q, n) == IF Len(q) <= n THEN q ELSE SubSeq(q, Len(q) - n + 1, Len(q))

\* for i in range(events_this_tick): fl = self.flights[(self.emitted + i) % len(self.flights)]
\* (1-based here).
PickFlight(em, i, n) == ((em + i) % n) + 1

\* A guidance that counts the captured waypoints without wrapping.
Guide_NoWrap(fl) ==
  IF fl.route = << >> THEN << fl, None >>
  ELSE LET wp  == fl.route[(fl.wp_index % Len(fl.route)) + 1]
           hit == Abs(fl.lat - wp[1]) < 1500000 /\ Abs(fl.lon - wp[2]) < 1500000
       IN  << IF hit THEN [fl EXCEPT !.wp_index = fl.wp_index + 1] ELSE fl,
              bearing_to(fl.lat, fl.lon, wp[1], wp[2]) >>

\* Guidance of _tick: the flight with its waypoint index advanced when the
\* active waypoint is captured, and the commanded bearing (None without route).
Guide(fl) ==
  IF fl.route = << >> THEN << fl, None >>
  ELSE LET wp  == fl.route[(fl.wp_index % Len(fl.route)) + 1]
           brg == bearing_to(fl.lat, fl.lon, wp[1], wp[2])
           hit == Abs(fl.lat - wp[1]) < 1500000 /\ Abs(fl.lon - wp[2]) < 1500000
       IN  << IF hit THEN [fl EXCEPT !.wp_index = (fl.wp_index + 1) % Len(fl.route)]
                     ELSE fl,
              brg >>

\* ANOMAP[choice](evt, fl[, self.dup_target]); draw holds the random draws.
ApplyAnomaly(choice, evt, fl, dup, draw) ==
  IF choice = "alt_neg" THEN a_alt_neg(evt, fl)
  ELSE IF choice = "speed_impossible" THEN a_speed_impossible(evt, fl, draw.spd)
  ELSE IF choice = "dup_icao" THEN a_dup_icao(evt, fl, dup)
  ELSE a_teleport(evt, fl, draw.tlat, draw.tlon)

\* The random draws of one flight advancement: random.uniform(-1, 1) of the
\* drift, random.random() < 0.01, the index of random.choice(anomaly_kinds),
\* and the draws of the injectors.
NoDraw == [drift |-> 0, trig |-> FALSE, choice |-> 1, tlat |-> 0, tlon |-> 0, spd |-> 150000]

\* A tick that walks the wind before it looks at the pause flag.
TickBegin_WindWhilePaused(gap, wd, ws) ==
  /\ pc = "idle"
  /\ ~exited
  /\ budget > 0
  /\ budget' = budget - 1
  /\ clock' = clock + gap
  /\ exited' = (duration # 0 /\ clock' - start_ts >= duration * 1000)
  /\ IF clock' - last_wind_update > 1000
     THEN /\ last_wind_update' = clock'
          /\ wind_dir_deg' = (wind_dir_deg + wd) % 7200
          /\ wind_speed_kt' = Max(0, Min(4000, wind_speed_kt + ws))
     ELSE UNCHANGED << wind_dir_deg, wind_speed_kt, last_wind_update >>
  /\ IF paused
     THEN UNCHANGED << event_carry, pc, tick >>
     ELSE /\ \E o \in CarryOutcomes(event_carry, rate) :
               /\ event_carry' = o.carry
               /\ tick' = [now |-> clock', events_this_tick |-> ForceOne(o.events, rate), i |-> 0]
          /\ pc' = "loop"
  /\ UNCHANGED << rate, duration, anomaly_kinds, anomalies_enabled, paused, emitted,
                  start_ts, dup_target, flights, last_events, last_inject_ts,
                  exported, adv_log, win, last_adv, det, grid, unit, exp, atm >>

\* _tick up to the flight loop: the timer fires gap ms after the last tick;
\* wd, ws are the draws of the wind walk.
TickBegin(gap, wd, ws) ==
  /\ pc = "idle"
  /\ ~exited
  /\ budget > 0
  /\ budget' = budget - 1
  /\ clock' = clock + gap
  /\ exited' = (duration # 0 /\ clock' - start_ts >= duration * 1000)
  /\ IF paused
     THEN UNCHANGED << event_carry, wind_dir_deg, wind_speed_kt, last_wind_update, pc, tick >>
     ELSE /\ \E o \in CarryOutcomes(event_carry, rate) :
               /\ event_carry' = o.carry
               /\ tick' = [now |-> clock', events_this_tick |-> ForceOne(o.events, rate), i |-> 0]
          /\ IF clock' - last_wind_update > 1000
             THEN /\ last_wind_update' = clock'
                  /\ wind_dir_deg' = (wind_dir_deg + wd) % 7200
                  /\ wind_speed_kt' = Max(0, Min(4000, wind_speed_kt + ws))
             ELSE UNCHANGED << wind_dir_deg, wind_speed_kt, last_wind_update >>
          /\ pc' = "loop"
  /\ UNCHANGED << rate, duration, anomaly_kinds, anomalies_enabled, paused, emitted,
                  start_ts, dup_target, flights, last_events, last_inject_ts,
                  exported, adv_log, win, last_adv, det, grid, unit, exp, atm >>

\* The flight loop of _tick up to the snapshot: guidance g = << fl, bearing >>,
\* step, fl.anomaly = None.
Stepped(g, drift) ==
  [ StepFlight(g[1], TickInterval, wind_dir_deg, wind_speed_kt,
               g[2], g[1].vnav_target_alt, drift)
    EXCEPT !.anomaly = << >> ]

\* An injection condition that does not consult the anomalies toggle.
ShouldInject_AlwaysOn(fl, now, trig) ==
  /\ anomaly_kinds # << >>
  /\ now - Get(last_inject_ts, fl.icao, 0) > InjectCooldown
  /\ trig

\* An injection condition with one cooldown timer for all flights.
ShouldInject_OneTimer(fl, now, trig) ==
  /\ anomalies_enabled
  /\ anomaly_kinds # << >>
  /\ \A k \in DOMAIN last_inject_ts : now - last_inject_ts[k] > InjectCooldown
  /\ trig

\* The injection condition of _tick for flight fl at time now.
ShouldInject(fl, now, trig) ==
  /\ anomalies_enabled
  /\ anomaly_kinds # << >>
  /\ now - Get(last_inject_ts, fl.icao, 0) > InjectCooldown
  /\ trig

\* The flight loop from the snapshot to the injector.
Injected(fl0, evt0, draw) ==
  IF ShouldInject(fl0, tick.now, draw.trig)
  THEN [ pair |-> ApplyAnomaly(anomaly_kinds[draw.choice], evt0, fl0, dup_target, draw),
         inject |-> TRUE, kind |-> anomaly_kinds[draw.choice] ]
  ELSE [ pair |-> << evt0, fl0 >>, inject |-> FALSE, kind |-> "none" ]

\* What one iteration leaves: the flight, the event, whether it injected.
LoopResult(marked, inj) ==
  [ fl |-> marked[2], evt |-> marked[1], inject |-> inj.inject, kind |-> inj.kind ]

\* A loop that caches the event before the detector runs.
LoopDetect_CacheFirst(inj) ==
  LoopResult(DetectAndMark(inj.pair[2], inj.pair[1],
                           Put(last_events, inj.pair[2].icao, inj.pair[1])), inj)

LoopDetect(inj) ==
  LoopResult(DetectAndMark(inj.pair[2], inj.pair[1], last_events), inj)

LoopSnapshot(fl0, draw) == LoopDetect(Injected(fl0, Snapshot(fl0, tick.now), draw))

\* The body of the flight loop of _tick for the flight at idx: guidance, step,
\* snapshot, optional injection, detection.
LoopBody(idx, draw) == LoopSnapshot(Stepped(Guide(flights[idx]), draw.drift), draw)

\* One iteration of the flight loop of _tick, _save_event included.
Advance(draw) ==
  /\ pc = "loop"
  /\ tick.i < tick.events_this_tick
  /\ \E idx \in { PickFlight(emitted, tick.i, Len(flights)) } :
       \E r \in { LoopBody(idx, draw) } :
         /\ flights' = [flights EXCEPT ![idx] = r.fl]
         /\ last_inject_ts' = IF r.inject THEN Put(last_inject_ts, r.fl.icao, tick.now)
                              ELSE last_inject_ts
         /\ last_events' = Put(last_events, r.fl.icao, r.evt)
         /\ exported' = [count |-> exported.count + 1, last |-> r.evt]
         /\ emitted' = emitted + 1
         /\ adv_log' = LastN(Append(adv_log, idx), Len(flights))
         /\ last_adv' = [idx |-> idx, kind |-> r.kind]
  /\ tick' = [tick EXCEPT !.i = tick.i + 1]
  /\ UNCHANGED << rate, duration, anomaly_kinds, anomalies_enabled, paused,
                  start_ts, dup_target, event_carry, wind_dir_deg, wind_speed_kt,
                  last_wind_update, clock, exited, pc, budget, win, det, grid, unit, exp, atm >>

\* The end of _tick, after the flight loop (the map and table refresh).
TickEnd ==
  /\ pc = "loop"
  /\ tick.i >= tick.events_this_tick
  /\ pc' = "idle"
  /\ win' = LastN(Append(win, tick.i), MaxWindow)
  /\ UNCHANGED << rate, duration, anomaly_kinds, anomalies_enabled, paused, emitted,
                  start_ts, dup_target, flights, event_carry, last_events,
                  wind_dir_deg, wind_speed_kt, last_wind_update, last_inject_ts,
                  exported, clock, exited, tick, budget, adv_log, last_adv,
                  det, grid, unit, exp, atm >>

\* Key handlers run between timer callbacks.
KeyFrame == << duration, anomaly_kinds, emitted, start_ts, dup_target, flights,
               event_carry, last_events, wind_dir_deg, wind_speed_kt,
               last_wind_update, last_inject_ts, exported, clock, exited, pc,
               tick, budget, adv_log, last_adv, det, grid, unit, exp, atm >>

action_toggle_pause ==
  /\ pc = "idle" /\ ~exited
  /\ paused' = ~paused
  /\ UNCHANGED << rate, anomalies_enabled, win, KeyFrame >>

action_toggle_anomalies ==
  /\ pc = "idle" /\ ~exited
  /\ anomalies_enabled' = ~anomalies_enabled
  /\ UNCHANGED << rate, paused, win, KeyFrame >>

action_inc_rate ==
  /\ pc = "idle" /\ ~exited
  /\ rate < MaxRate
  /\ rate' = Min(rate + 1, 200)
  /\ win' = IF rate' = rate THEN win ELSE << >>
  /\ UNCHANGED << paused, anomalies_enabled, KeyFrame >>

action_dec_rate ==
  /\ pc = "idle" /\ ~exited
  /\ rate' = Max(rate - 1, 0)
  /\ win' = IF rate' = rate THEN win ELSE << >>
  /\ UNCHANGED << paused, anomalies_enabled, KeyFrame >>

\* Direct calls of Flight.step on one flight.
MaxUnitCalls == 2

UnitFlights ==
  { NewFlight("A1", 450000000, 50000000, 9000000, sp, h, 101325, "7000", ac) :
      sp \in {25000, 35000}, h \in {0, 7190}, ac \in {"A320", "B738", "E190"} }

\* lnav_bearing with the drift drawn when there is none.
UnitSteer ==
  { [brg |-> None, drift |-> -20], [brg |-> None, drift |-> 20],
    [brg |-> 3600, drift |-> 0], [brg |-> 7195, drift |-> 0],
    [brg |-> 100, drift |-> 0], [brg |-> 7100, drift |-> 0] }

NoUnit == [phase |-> "off", fl |-> BaseFlight, left |-> 0]

\* fl.step(dt, wind_dir_deg=..., wind_speed_kt=..., lnav_bearing=..., vnav_target_alt=...)
StepCall(dt, wind, steer, vnav) ==
  /\ unit.phase = "run"
  /\ unit.left > 0
  /\ unit' = [unit EXCEPT
                !.fl = StepFlight(unit.fl, dt, wind[1], wind[2], steer.brg, vnav, steer.drift),
                !.left = unit.left - 1]
  /\ UNCHANGED << appVars, det, grid, exp, atm >>

---------------------------------------------------------------------------
(* Initial states.                                                         *)

\* on_mount: fl.route = wps; fl.vnav_target_alt = random.choice([...])
WithRoute(fl, wps, vnav) == [fl EXCEPT !.route = wps, !.vnav_target_alt = vnav]

GuidedA ==
  WithRoute(NewFlight("A1", 450000000, 50000000, 9000000, 30000, 0, 101325, "7000", "A320"),
            << << 451000000, 51000000 >>, << 440000000, 40000000 >> >>, 12000000)

GuidedB ==
  WithRoute(NewFlight("B2", 500000000, 100000000, 25000000, 25000, 7190, 100000, "1200", "E190"),
            << << 480000000, 120000000 >>, << 520000000, 80000000 >>,
               << 500000000, 100000000 >> >>, 24000000)

GuidedC ==
  WithRoute(NewFlight("C3", 400000000, 0, 35000000, 35000, 3600, 103000, "2000", "B738"),
            << << 420000000, -20000000 >>, << 400000000, 0 >> >>, 28000000)

\* A route whose first waypoint lies exactly 0.15 degrees north of the flight
\* and whose second one lies close by.
GuidedE ==
  WithRoute(NewFlight("E5", 450000000, 50000000, 9000000, 30000, 0, 101325, "7000", "A320"),
            << << 451500000, 50000000 >>, << 450500000, 50500000 >> >>, 12000000)

DriftD == NewFlight("D4", 420000000, 20000000, 5000000, 35000, 10, 98500, "7000", "E190")

\* ATCApp.__init__ for a configuration, with the flights on_mount leaves.
AppInit(r, dur, kinds, fls, dup, n) ==
  /\ rate = r
  /\ duration = dur
  /\ anomaly_kinds = kinds
  /\ anomalies_enabled = (kinds # << >>)
  /\ paused = FALSE
  /\ emitted = 0
  /\ start_ts = Epoch
  /\ dup_target = dup
  /\ flights = fls
  /\ event_carry = 0
  /\ last_events = << >>
  /\ wind_dir_deg = 4000
  /\ wind_speed_kt = 1500
  /\ last_wind_update = Epoch
  /\ last_inject_ts = << >>
  /\ exported = [count |-> 0, last |-> Snapshot(fls[1], 0)]
  /\ clock = Epoch
  /\ exited = FALSE
  /\ pc = "idle"
  /\ tick = [now |-> Epoch, events_this_tick |-> 0, i |-> 0]
  /\ budget = n
  /\ adv_log = << >>
  /\ win = << >>
  /\ last_adv = [idx |-> 0, kind |-> "none"]

\* No application running: only direct calls are explored.
AppOff == AppInit(0, 0, << >>, << BaseFlight >>, "", 0)

---------------------------------------------------------------------------
(* Specifications.                                                         *)

\* The scheduler under the pause and rate keys: guided flights, no anomaly
\* kinds configured.
MaxTicks == 4

InitRates == {0, 1, 3, 10, 15}

Init ==
  /\ \E r \in InitRates :
        AppInit(r, 0, << >>, << GuidedA, GuidedB, GuidedC >>, "", MaxTicks)
  /\ det = NoDet /\ grid = NoGrid /\ unit = NoUnit /\ exp = NoExp /\ atm = NoAtm

\* The timer fires on time; the wind walk draws +2 degrees, -1 kt.
TickOnTime == TickBegin(TickInterval, 40, -100)

AdvanceQuiet == Advance(NoDraw)

Next ==
  \/ TickOnTime
  \/ AdvanceQuiet
  \/ TickEnd
  \/ action_toggle_pause
  \/ action_inc_rate
  \/ action_dec_rate

Spec == Init /\ [][Next]_vars

\* Route following: a flight that captures every waypoint of its route
\* beside one that captures the first only.
RouteTicks == 5

InitRoute ==
  /\ AppInit(10, 0, << >>, << GuidedE, GuidedA >>, "", RouteTicks)
  /\ det = NoDet /\ grid = NoGrid /\ unit = NoUnit /\ exp = NoExp /\ atm = NoAtm

SpecRoute == InitRoute /\ [][Next]_vars

\* The default rate with every anomaly kind configured, or none: a guided and
\* a drifting flight, every draw of the injector.
InjectTicks == 3

AllKinds == << "alt_neg", "speed_impossible", "dup_icao", "teleport" >>

InjectDraws ==
  { [NoDraw EXCEPT !.drift = d] : d \in {-20, 20} }
  \cup { [drift |-> d, trig |-> TRUE, choice |-> c, tlat |-> t[1], tlon |-> t[2], spd |-> 150000] :
         d \in {-20, 20}, c \in {1, 2, 3},
         t \in { << 0, 0 >> } }
  \cup { [drift |-> 20, trig |-> TRUE, choice |-> 2, tlat |-> 0, tlon |-> 0, spd |-> 300000] }
  \cup { [drift |-> d, trig |-> TRUE, choice |-> 4, tlat |-> t[1], tlon |-> t[2], spd |-> 150000] :
         d \in {-20, 20},
         t \in { << -600000000, -1800000000 >>, << 800000000, 1800000000 >> } }

InitInject ==
  /\ \E dup \in {"A1", "D4"} : \E kinds \in { AllKinds, << >> } :
        AppInit(10, 0, kinds, << GuidedA, DriftD >>, dup, InjectTicks)
  /\ det = NoDet /\ grid = NoGrid /\ unit = NoUnit /\ exp = NoExp /\ atm = NoAtm

AdvanceInject == \E d \in InjectDraws : Advance(d)

NextInject ==
  \/ TickOnTime
  \/ AdvanceInject
  \/ TickEnd
  \/ action_toggle_anomalies

SpecInject == InitInject /\ [][NextInject]_vars

\* Injection on a flight no detector rule matches: 20000 ft at 300 kt in the
\* standard atmosphere, beside the drifting flight.
TagTicks == 3

CleanC == NewFlight("C3", 460000000, 60000000, 20000000, 30000, 0, 101325, "7000", "B738")

InitTag ==
  /\ AppInit(10, 0, AllKinds, << CleanC, DriftD >>, "D4", TagTicks)
  /\ det = NoDet /\ grid = NoGrid /\ unit = NoUnit /\ exp = NoExp /\ atm = NoAtm

SpecTag == InitTag /\ [][NextInject]_vars

\* Direct calls of Flight.step in still air on a flight heading north, east or
\* straight at a waypoint one degree to its north or to its east, steered to
\* hold its heading or toward one of the waypoints.
CompassWps == { << 460000000, 50000000 >>, << 450000000, 60000000 >> }

CompassFlights ==
  { NewFlight("A1", 450000000, 50000000, 9000000, sp, h, 101325, "7000", ac) :
      sp \in {25000, 35000}, ac \in {"A320", "E190"},
      h \in {0, 1800} \cup { bearing_to(450000000, 50000000, wp[1], wp[2]) : wp \in CompassWps } }

CompassSteer(fl) ==
  {fl.heading} \cup { bearing_to(fl.lat, fl.lon, wp[1], wp[2]) : wp \in CompassWps }

InitCompass ==
  /\ AppOff
  /\ det = NoDet /\ grid = NoGrid /\ exp = NoExp /\ atm = NoAtm
  /\ \E f \in CompassFlights : unit = [phase |-> "run", fl |-> f, left |-> MaxUnitCalls]

NextCompass ==
  \E dt \in {100, 1000} :
    \E b \in CompassSteer(unit.fl) :
      StepCall(dt, << None, 0 >>, [brg |-> b, drift |-> 0], None)

SpecCompass == InitCompass /\ [][NextCompass]_vars

\* No anomaly kind configured: a flight created with a QNH from the ends and
\* the middle of uniform(985.0, 1030.0) and from both sides of the two values
\* where the barometric offset is 400 ft, beside the drifting flight.
QnhTicks == 4

InitQnh ==
  /\ \E q \in {98500, 99840, 99850, 101325, 102800, 102810, 103000} :
       \E alt \in {5000000, 20000000} :
         AppInit(10, 0, << >>,
                 << NewFlight("A1", 450000000, 50000000, alt, 30000, 0, q, "7000", "A320"),
                    DriftD >>, "", QnhTicks)
  /\ det = NoDet /\ grid = NoGrid /\ unit = NoUnit /\ exp = NoExp /\ atm = NoAtm

SpecQnh == InitQnh /\ [][NextInject]_vars

\* The flight loop runs to its end: WF_vars(AdvanceQuiet), with ENABLED
\* written out as the guard of Advance (an iteration always changes emitted).
AdvanceFair ==
  \/ []<>(~(pc = "loop" /\ tick.i < tick.events_this_tick))
  \/ []<><<AdvanceQuiet>>_vars

\* A run under a duration limit and the pause key: one drifting flight at the
\* default rate, the timer on time or a second late, for as long as a limit
\* of one second needs.
RunTicks == 10

InitRun ==
  /\ \E dur \in {-1, 0, 1} :
        AppInit(10, dur, << >>, << DriftD >>, "", RunTicks)
  /\ det = NoDet /\ grid = NoGrid /\ unit = NoUnit /\ exp = NoExp /\ atm = NoAtm

TickLate == TickBegin(TickInterval + 1000, 40, -100)

NextRun ==
  \/ TickOnTime
  \/ TickLate
  \/ AdvanceQuiet
  \/ TickEnd
  \/ action_toggle_pause

\* set_interval keeps firing the timer, and a tick runs to its end.
SpecRun ==
  /\ InitRun
  /\ [][NextRun]_vars
  /\ WF_vars(TickOnTime \/ TickLate)
  /\ AdvanceFair
  /\ WF_vars(TickEnd)

\* The injection cooldown: two flights advanced in turn, one anomaly kind, the
\* timer on time or stalled for 11.9 s, so that a flight comes up again
\* exactly 12.0 s, 12.2 s or longer after its injection.
CooldownTicks == 5

CooldownDraws == { NoDraw, [NoDraw EXCEPT !.trig = TRUE] }

InitCooldown ==
  /\ AppInit(10, 0, << "alt_neg" >>, << BaseFlight, DriftD >>, "A1", CooldownTicks)
  /\ det = NoDet /\ grid = NoGrid /\ unit = NoUnit /\ exp = NoExp /\ atm = NoAtm

TickStalled == TickBegin(InjectCooldown - TickInterval, 40, -100)

AdvanceCooldown == \E d \in CooldownDraws : Advance(d)

NextCooldown ==
  \/ TickOnTime
  \/ TickStalled
  \/ AdvanceCooldown
  \/ TickEnd

SpecCooldown == InitCooldown /\ [][NextCooldown]_vars

\* Vertical guidance: a flight that starts 103, 100, 500, 1000 or 3000 ft
\* from its VNAV target, advanced in turn with a flight that has none.
VnavTicks == 30

VnavFlights ==
  { WithRoute(NewFlight("V1", 450000000, 50000000, alt, 30000, 0, 101325, "7000", "A320"),
              << << 600000000, 50000000 >>, << 600000000, 200000000 >> >>, 12000000) :
      alt \in {11897000, 11900000, 12103000, 12500000, 13000000, 9000000} }

InitVnav ==
  /\ \E f \in VnavFlights : AppInit(10, 0, << >>, << f, DriftD >>, "", VnavTicks)
  /\ det = NoDet /\ grid = NoGrid /\ unit = NoUnit /\ exp = NoExp /\ atm = NoAtm

NextVnav ==
  \/ TickOnTime
  \/ AdvanceQuiet
  \/ TickEnd

\* set_interval keeps firing the timer, and a tick runs to its end.
SpecVnav ==
  /\ InitVnav
  /\ [][NextVnav]_vars
  /\ WF_vars(TickOnTime)
  /\ AdvanceFair
  /\ WF_vars(TickEnd)

\* A long run at the default rate: one guided flight, teleport configured.
LongTicks == 105

LongDraws ==
  { NoDraw,
    [NoDraw EXCEPT !.trig = TRUE, !.tlat = 800000000, !.tlon = 1800000000] }

InitLong ==
  /\ AppInit(10, 0, << "teleport" >>, << GuidedA >>, "", LongTicks)
  /\ det = NoDet /\ grid = NoGrid /\ unit = NoUnit /\ exp = NoExp /\ atm = NoAtm

AdvanceLong == \E d \in LongDraws : Advance(d)

NextLong ==
  \/ TickOnTime
  \/ AdvanceLong
  \/ TickEnd

SpecLong == InitLong /\ [][NextLong]_vars

\* Direct calls of Flight.step.
InitUnit ==
  /\ AppOff
  /\ det = NoDet /\ grid = NoGrid /\ exp = NoExp /\ atm = NoAtm
  /\ \E f \in UnitFlights : unit = [phase |-> "run", fl |-> f, left |-> MaxUnitCalls]

\* The wind and the VNAV target of a call: none, or both given.
UnitAir == { << None, 0, None >>, << 4000, 1500, 12000000 >> }

NextUnit ==
  \E dt \in {100, 1000} :
    \E air \in UnitAir :
      \E steer \in UnitSteer :
        StepCall(dt, << air[1], air[2] >>, steer, air[3])

SpecUnit == InitUnit /\ [][NextUnit]_vars

\* Direct calls of the detector and the severity classifier.
InitDetect ==
  /\ AppOff
  /\ grid = NoGrid /\ unit = NoUnit /\ exp = NoExp /\ atm = NoAtm
  /\ \E e \in DetEvents : \E c \in DetCaches : \E an \in DetFlightTags :
        det = [phase |-> "new", fl |-> [BaseFlight EXCEPT !.anomaly = an],
               evt |-> e, input |-> e, cache |-> c, sev |-> "None"]

NextDetect ==
  \/ DetectCall
  \/ SeverityCall

SpecDetect == InitDetect /\ [][NextDetect]_vars

\* Direct calls of geo_to_grid.
InitGrid ==
  /\ AppOff
  /\ det = NoDet /\ unit = NoUnit /\ exp = NoExp /\ atm = NoAtm
  /\ \E la \in GridLats : \E lo \in GridLons :
       \E r \in 3..MaxRows : \E c \in 3..MaxCols :
          grid = [phase |-> "new", lat |-> la, lon |-> lo, rows |-> r,
                  cols |-> c, y |-> 0, x |-> 0]

NextGrid == GridCall

SpecGrid == InitGrid /\ [][NextGrid]_vars

\* Direct calls of Flight.snapshot on pairs of true airspeeds.
InitAtmos ==
  /\ AppOff
  /\ det = NoDet /\ grid = NoGrid /\ unit = NoUnit /\ exp = NoExp
  /\ \E a \in AtmAlts : \E t1 \in AtmSpeeds : \E t2 \in AtmSpeeds :
       /\ t1 < t2
       /\ atm = [NoAtm EXCEPT !.phase = "new", !.altitude = a, !.tas1 = t1, !.tas2 = t2]

NextAtmos == SnapshotCall

SpecAtmos == InitAtmos /\ [][NextAtmos]_vars

\* Direct calls of the exporters: each class, each Elastic configuration.
InitExport ==
  /\ AppOff
  /\ det = NoDet /\ grid = NoGrid /\ unit = NoUnit /\ atm = NoAtm
  /\ \E k \in {"jsonl", "elastic", "multi"} :
       \E en \in BOOLEAN : \E bs \in {0, 2, 200} : \E ph \in BOOLEAN :
          exp = [ NoExp EXCEPT !.phase = "run", !.kind = k,
                               !.elastic = NewElastic(en, bs, ph) ]

EmitAny == \E event \in {1, 2} : EmitCall(event)

NextExport ==
  \/ EmitAny
  \/ CloseCall

SpecExport == InitExport /\ [][NextExport]_vars

---------------------------------------------------------------------------
(* Properties.                                                             *)

RECURSIVE SumSeq(_)
SumSeq(q) == IF q = << >> THEN 0 ELSE Head(q) + SumSeq(Tail(q))

\* 10 * |events of ticks a..b of win - rate * 0.1 * (b - a + 1)|
Deviation10(a, b) == Abs(10 * SumSeq(SubSeq(win, a, b)) - rate * (b - a + 1))

\* C1 (as stated): every window of len(flights) consecutive advancements,
\* taken in the order they occur across ticks, advances each flight of the
\* registry exactly once.  adv_log holds the last len(flights) advancements.
C1_RoundRobin ==
  Len(adv_log) = Len(flights) =>
    { adv_log[k] : k \in 1..Len(adv_log) } = 1..Len(flights)

C3_HundredTicks ==
  \A a \in 1..(Len(win) - 99) :
    /\ SumSeq(SubSeq(win, a, a + 99)) >= 99
    /\ SumSeq(SubSeq(win, a, a + 99)) <= 101

C3_Witness ==
  /\ rate = 10
  /\ ~paused
  /\ Len(win) >= 100
  /\ SumSeq(SubSeq(win, Len(win) - 99, Len(win))) = 100

\* C4: after every call of Flight.step, with a commanded bearing or drifting,
\* for each dt, |turn_rate_dps| <= max_turn_rate_dps and |bank_deg| <=
\* max_bank_deg of the flight's aircraft type.
C4_TurnAndBankLimited ==
  unit.left < MaxUnitCalls =>
    /\ Abs(unit.fl.turn_rate_dps) <= MaxTurnRateOf(unit.fl.ac_type)
    /\ Abs(unit.fl.bank_deg) <= MaxBankOf(unit.fl.ac_type)

\* A step whose raw turn rate and bank were beyond the limits: both sit on them.
C4_Witness ==
  /\ unit.phase = "run"
  /\ unit.left < MaxUnitCalls
  /\ Abs(unit.fl.turn_rate_dps) = MaxTurnRateOf(unit.fl.ac_type)
  /\ Abs(unit.fl.bank_deg) = MaxBankOf(unit.fl.ac_type)

C6_TrailBounded ==
  /\ [](\A k \in 1..Len(flights) : Len(flights[k].trail) <= 60)
  /\ [][ emitted' # emitted =>
           \A k \in 1..Len(flights) :
             IF k # last_adv'.idx
             THEN flights'[k].trail = flights[k].trail
             ELSE IF last_adv'.kind = "teleport"
             THEN flights'[k].trail = << >>
             ELSE flights'[k].trail =
                    LastN(Append(flights[k].trail,
                                 << flights'[k].lat, flights'[k].lon >>), 60) ]_vars

\* A full trail that has already evicted samples.
C6_Witness ==
  /\ Len(flights[1].trail) = 60
  /\ emitted > 61
  /\ flights[1].trail[60] = << flights[1].lat, flights[1].lon >>

\* C7: when teleport is applied to a flight, at the end of that advancement
\* the flight's position lies in lat [-60, 80], lon [-180, 180], equals the
\* lat/lon of the emitted event, and its trail is empty.
C7_TeleportMovesFlight ==
  last_adv.kind = "teleport" =>
    /\ flights[last_adv.idx].lat >= -600000000
    /\ flights[last_adv.idx].lat <= 800000000
    /\ flights[last_adv.idx].lon >= -1800000000
    /\ flights[last_adv.idx].lon <= 1800000000
    /\ flights[last_adv.idx].lat = exported.last.lat
    /\ flights[last_adv.idx].lon = exported.last.lon
    /\ flights[last_adv.idx].trail = << >>

\* A teleport of a flight that had been advanced before (so held a trail).
C7_Witness ==
  /\ last_adv.kind = "teleport"
  /\ emitted >= 3
  /\ exported.count = emitted
  /\ flights[last_adv.idx].lat = 800000000
  /\ exported.last.lon = 1800000000
  /\ flights[last_adv.idx].trail = << >>

\* C8: for every event whose squawk is 7500, 7600 or 7700, whatever its other
\* fields and whichever other rules match, the detector's tag includes
\* EMERGENCY and the classifier returns critical for that tag.
C8_EmergencyCritical ==
  (det.phase \in {"detected", "classified"}
     /\ det.input.squawk \in {"7500", "7600", "7700"}) =>
    /\ Contains(det.evt.anomaly, T_EMERGENCY)
    /\ det.fl.anomaly = det.evt.anomaly
    /\ det.phase = "classified" => det.sev = "critical"

\* An emergency squawk on an event that also matches warn-level rules.
C8_Witness ==
  /\ det.phase = "classified"
  /\ det.input.squawk = "7700"
  /\ Contains(det.evt.anomaly, T_250_10K)
  /\ Contains(det.evt.anomaly, T_SPEED_JUMP)
  /\ det.sev = "critical"

C10_InsideBorder ==
  grid.phase = "done" =>
    /\ 1 <= grid.y /\ grid.y <= grid.rows - 2
    /\ 1 <= grid.x /\ grid.x <= grid.cols - 2

\* C11: for JsonlExporter, ElasticTemplateExporter and MultiExporter, after
\* any sequence of emit calls a close() raises no error and leaves no buffered
\* record behind, and a close() that follows a close() changes nothing.
C11_CloseIdempotent ==
  /\ [](exp.last = "close" =>
          /\ ~exp.raised
          /\ exp.elastic.buffer = << >>
          /\ exp.jsonl.pending = << >>
          /\ exp.kind # "elastic" => exp.jsonl.closed)
  /\ [][(exp.last = "close" /\ exp'.last = "close") =>
          (exp'.jsonl = exp.jsonl /\ exp'.elastic = exp.elastic
             /\ exp'.raised = exp.raised)]_vars

\* A second close after emits that had left records in the Elastic buffer.
C11_Witness ==
  /\ exp.kind = "multi"
  /\ exp.closes = 2
  /\ exp.last = "close"
  /\ exp.emits = 3
  /\ exp.elastic.enabled
  /\ exp.elastic.warned
  /\ Len(exp.jsonl.lines) = 3

\* C12: for every flight with a non-empty route wp_index < len(route) at all
\* times; an advancement of the flight moves the index to the next waypoint,
\* wrapping to 0, exactly when both |lat - wp.lat| < 0.15 and
\* |lon - wp.lon| < 0.15 hold for the active waypoint at the position before
\* the step, and nothing else changes the index.
C12_WaypointCapture ==
  /\ [](\A k \in 1..Len(flights) :
          flights[k].route # << >> =>
            (0 <= flights[k].wp_index /\ flights[k].wp_index < Len(flights[k].route)))
  /\ [][\A k \in 1..Len(flights) :
          LET fl == flights[k]
              wp == fl.route[fl.wp_index + 1]
          IN  IF /\ emitted' = emitted + 1
                 /\ k = ((emitted + tick.i) % Len(flights)) + 1
                 /\ fl.route # << >>
                 /\ Abs(fl.lat - wp[1]) < 1500000
                 /\ Abs(fl.lon - wp[2]) < 1500000
              THEN flights'[k].wp_index = (fl.wp_index + 1) % Len(fl.route)
              ELSE flights'[k].wp_index = fl.wp_index]_vars

\* The flight that set out exactly 0.15 degrees from its first waypoint has
\* captured it on a later advancement and the last one after it: the index is
\* back at 0 while the flight has moved.
C12_Witness ==
  /\ flights[1].icao = "E5"
  /\ flights[1].wp_index = 0
  /\ flights[1].lat > 450000000
  /\ Len(flights[1].trail) >= 3
  /\ flights[2].wp_index = 1

\* C13: a teleport and a duplicate-identity fault corrupt the flight's
\* persistent state as well as the outgoing event: after the injection the
\* flight record holds the injected position, respectively the injected
\* victim identifier.
C13_FaultPersists ==
  /\ last_adv.kind = "teleport" =>
       /\ flights[last_adv.idx].lat = exported.last.lat
       /\ flights[last_adv.idx].lon = exported.last.lon
  /\ last_adv.kind = "dup_icao" =>
       /\ exported.last.icao = dup_target
       /\ flights[last_adv.idx].icao = dup_target

\* C14: while anomalies are disabled or no anomaly kind is configured, an
\* advancement injects nothing: the flight is left as guidance and step left
\* it, the event handed to the detector (the emitted event but for the
\* detector's tag) is the snapshot of that flight, and no cooldown timestamp
\* is recorded; toggling anomalies on with no kind configured changes
\* nothing of this.
C14_InjectionNoOp ==
  [][(emitted' = emitted + 1 /\ ~(anomalies_enabled /\ anomaly_kinds # << >>)) =>
       /\ last_inject_ts' = last_inject_ts
       /\ last_adv'.kind = "none"
       /\ \E d \in {-20, 0, 20} :
            LET k  == ((emitted + tick.i) % Len(flights)) + 1
                f0 == Stepped(Guide(flights[k]), d)
            IN  /\ [flights'[k] EXCEPT !.anomaly = << >>] = f0
                /\ [exported'.last EXCEPT !.anomaly = << >>] = Snapshot(f0, tick.now)
                /\ \A j \in 1..Len(flights) : j # k => flights'[j] = flights[j]]_vars

\* Anomalies were toggled on with no kind configured and both flights were
\* advanced afterwards.
C14_Witness ==
  /\ anomaly_kinds = << >>
  /\ anomalies_enabled
  /\ emitted >= 2
  /\ last_adv.kind = "none"
  /\ last_inject_ts = << >>

\* C15: an event of a flight with no cached previous event is never tagged
\* SPEED_JUMP and the other rules are evaluated as usual; with a cached event
\* of the same flight the event is tagged SPEED_JUMP exactly when its speed
\* differs from the cached speed by more than 180 kt.
C15_SpeedJump ==
  det.phase \in {"detected", "classified"} =>
    /\ Contains(det.evt.anomaly, T_SPEED_JUMP) <=>
         /\ det.fl.icao \in DOMAIN det.cache
         /\ Abs(det.input.speed_knots - det.cache[det.fl.icao].speed_knots) > 18000
    /\ det.fl.icao \notin DOMAIN det.cache =>
         /\ Contains(det.evt.anomaly, T_EMERGENCY) <=>
              det.input.squawk \in {"7500", "7600", "7700"}
         /\ Contains(det.evt.anomaly, T_LOW_QOS) <=> det.input.nic < 5

\* A first event tagged by another rule, and no speed-jump tag.
C15_Witness ==
  /\ det.phase = "detected"
  /\ det.cache = << >>
  /\ det.input.speed_knots = 48010
  /\ det.evt.anomaly = T_EMERGENCY

\* C16: every tick, paused or not, checks the duration limit once: it
\* requests termination if and only if duration > 0 and the elapsed time is at
\* least duration; with duration = 0 termination is never requested, and with
\* duration > 0 it is eventually requested as long as ticks keep firing.
C16_DurationLimit ==
  /\ [][IF clock' # clock
        THEN exited' <=> (duration > 0 /\ clock' - start_ts >= duration * 1000)
        ELSE exited' = exited]_vars
  /\ [](duration = 0 => ~exited)
  /\ (duration > 0) ~> exited

\* C17 (amended): while paused nothing advances: every flight, the rate
\* carry, the emitted counter, the cooldown timestamps, the last-event cache
\* and the exported events are unchanged by any step; a paused tick still
\* checks the duration limit, and leaves the wind field and the time of its
\* last update untouched.
C17_PausedTick ==
  [][paused =>
       /\ flights' = flights /\ event_carry' = event_carry /\ emitted' = emitted
       /\ last_inject_ts' = last_inject_ts /\ last_events' = last_events
       /\ exported' = exported /\ pc' = "idle"
       /\ clock' # clock =>
            /\ (duration > 0 /\ clock' - start_ts >= duration * 1000) => exited'
            /\ duration = 0 => ~exited'
            /\ wind_dir_deg' = wind_dir_deg /\ wind_speed_kt' = wind_speed_kt
            /\ last_wind_update' = last_wind_update]_vars

\* A paused tick has run more than a second after the last wind update, after
\* the flight had been advanced.
C17_Witness ==
  /\ paused
  /\ ~exited
  /\ emitted >= 1
  /\ clock - last_wind_update > 1000

\* C17: while paused a tick advances nothing, and still runs the duration
\* check and the wind-field update that is due once a second has passed.
C17_PausedHousekeeping ==
  [][(paused /\ clock' # clock) =>
       /\ flights' = flights /\ event_carry' = event_carry /\ emitted' = emitted
       /\ last_inject_ts' = last_inject_ts /\ last_events' = last_events
       /\ (duration > 0 /\ clock' - start_ts >= duration * 1000) => exited'
       /\ clock' - last_wind_update > 1000 => last_wind_update' = clock']_vars

\* C18 (amended): at a fixed altitude and for true airspeeds tas1 < tas2 the
\* Mach number of the event for tas2 is never less than the one for tas1, and
\* it is strictly greater when tas1 is not negative and tas2 exceeds it by at
\* least one knot.
C18_MachMonotone ==
  atm.phase = "done" =>
    /\ atm.m1 <= atm.m2
    /\ (atm.tas1 >= 0 /\ atm.tas2 - atm.tas1 >= 100) => atm.m1 < atm.m2

\* Two airspeeds a knot apart with distinct Mach numbers.
C18_Witness ==
  /\ atm.phase = "done"
  /\ atm.tas1 = 30000
  /\ atm.tas2 = 30100
  /\ atm.m2 > atm.m1
  /\ atm.m1 > 0

\* C18: at a fixed altitude and for any two true airspeeds tas1 < tas2 the
\* Mach number derived for tas2 is strictly greater than the one for tas1.
C18_MachStrict ==
  atm.phase = "done" => atm.m1 < atm.m2

\* C19: an unpaused tick whose computed count (the integer part of the
\* carry) is zero advances exactly one flight if rate > 0 and none if
\* rate = 0; every unpaused tick at a positive rate advances at least one
\* flight, and at rate 0 the emitted counter never changes.
C19_ForcedMinimum ==
  /\ [][(clock' # clock /\ ~paused) =>
          LET computed == (event_carry + RatePerTick(rate) - event_carry') \div 10
          IN  /\ pc' = "loop" /\ tick'.i = 0
              /\ (computed = 0 /\ rate > 0) => tick'.events_this_tick = 1
              /\ (computed = 0 /\ rate = 0) => tick'.events_this_tick = 0
              /\ rate > 0 => tick'.events_this_tick >= 1]_vars
  /\ [][emitted' # emitted =>
          /\ emitted' = emitted + 1 /\ tick'.i = tick.i + 1
          /\ tick.i < tick.events_this_tick]_vars
  /\ [][(pc = "loop" /\ pc' = "idle") =>
          /\ tick.i = tick.events_this_tick
          /\ win'[Len(win')] = tick.events_this_tick]_vars
  /\ [][rate = 0 => emitted' = emitted]_vars

\* The first advancing tick of a run, at 3 events/s: the carry holds 0.3, the
\* computed count was zero, and one flight has been advanced.
C19_Witness ==
  /\ pc = "loop"
  /\ rate = 3
  /\ event_carry = 3
  /\ emitted = 1
  /\ tick.i = 1
  /\ tick.events_this_tick = 1

\* C20: the severity of a tag text: none for an empty or absent text;
\* critical for a text that contains EMERGENCY, LOW_IAS_HIGH_ALT or VRATE_ABN,
\* whatever else it contains and wherever the token stands; warning for every
\* other non-empty text, whether it holds a known warning token or not.
C20_SeverityPriority ==
  det.phase = "classified" =>
    LET text == IF det.evt.anomaly # << >> THEN det.evt.anomaly ELSE det.fl.anomaly
        crit == \/ Contains(text, T_EMERGENCY)
                \/ Contains(text, T_LOW_IAS_HIGH_ALT)
                \/ Contains(text, T_VRATE_ABN)
    IN  /\ text = << >> => det.sev = "None"
        /\ (text # << >> /\ crit) => det.sev = "critical"
        /\ (text # << >> /\ ~crit) => det.sev = "warn"

\* A text without any known token, classified as a warning.
C20_Witness ==
  /\ det.phase = "classified"
  /\ det.evt.anomaly = << >>
  /\ det.fl.anomaly = << "?" >>
  /\ det.sev = "warn"

\* The text acc with the tag t appended after a ";", for a tag that applies.
AddTag(acc, applies, t) ==
  IF ~applies THEN acc ELSE IF acc = << >> THEN t ELSE acc \o << ";" >> \o t

\* C21: the detector's anomaly string is the tags of all matching rules, each
\* once, joined by ";" in the order 250@10k, VRATE_ABN, ALT_MISMATCH,
\* LOW_IAS_HIGH_ALT, LOW_QOS, EMERGENCY, SPEED_JUMP; each rule is decided by
\* its own condition alone, and with no matching rule the event's anomaly
\* field is left as it was, empty.
C21_TagString ==
  det.phase \in {"detected", "classified"} =>
    LET e  == det.input
        s1 == AddTag(<< >>, e.baro_altitude < 10000000 /\ e.ias_knots > 26000, T_250_10K)
        s2 == AddTag(s1, Abs(e.vertical_rate) > 600000, T_VRATE_ABN)
        s3 == AddTag(s2, Abs(e.altitude - e.baro_altitude) > 400000, T_ALT_MISMATCH)
        s4 == AddTag(s3, e.altitude > 20000000 /\ e.ias_knots < 14000, T_LOW_IAS_HIGH_ALT)
        s5 == AddTag(s4, e.nic < 5 \/ e.nacp < 7 \/ e.sil < 2, T_LOW_QOS)
        s6 == AddTag(s5, e.squawk \in {"7500", "7600", "7700"}, T_EMERGENCY)
        s7 == AddTag(s6, /\ det.fl.icao \in DOMAIN det.cache
                         /\ Abs(e.speed_knots - det.cache[det.fl.icao].speed_knots) > 18000,
                     T_SPEED_JUMP)
    IN  /\ det.evt.anomaly = s7
        /\ s7 = << >> => det.evt = det.input

\* An event that matches six rules at once.
C21_Witness ==
  /\ det.phase = "detected"
  /\ det.evt.anomaly = T_250_10K \o << ";" >> \o T_VRATE_ABN \o << ";" >> \o T_ALT_MISMATCH
                       \o << ";" >> \o T_LOW_QOS \o << ";" >> \o T_EMERGENCY
                       \o << ";" >> \o T_SPEED_JUMP

C23_OneEventPerAdvance ==
  /\ [](exported.count = emitted)
  /\ [][(emitted' # emitted \/ exported' # exported \/ flights' # flights
           \/ last_events' # last_events) =>
          LET k  == ((emitted + tick.i) % Len(flights)) + 1
              id == flights[k].icao
          IN  /\ pc = "loop" /\ tick'.i = tick.i + 1
              /\ emitted' = emitted + 1
              /\ exported'.count = exported.count + 1
              /\ last_events' = Put(last_events, id, exported'.last)
              /\ \A j \in 1..Len(flights) : j # k => flights'[j] = flights[j]
              /\ exported'.last.timestamp = tick.now
              /\ exported'.last.heading = RoundTo(flights'[k].heading, 2)
              /\ last_adv'.kind # "teleport" => flights'[k].trail # << >>
              /\ last_adv'.kind = "alt_neg" =>
                   Contains(exported'.last.anomaly, T_ALT_MISMATCH)
              /\ Contains(exported'.last.anomaly, T_SPEED_JUMP) <=>
                   /\ id \in DOMAIN last_events
                   /\ Abs(exported'.last.speed_knots - last_events[id].speed_knots)
                        > 18000]_vars

\* The third event of a run: the flight whose first event carried an
\* impossible speed is advanced again, and its clean event is tagged
\* SPEED_JUMP against the cached first one.
C23_Witness ==
  /\ emitted = 3
  /\ exported.count = 3
  /\ last_adv.kind = "none"
  /\ Contains(exported.last.anomaly, T_SPEED_JUMP)
  /\ last_events["A1"] = exported.last
  /\ "D4" \in DOMAIN last_events

\* C24: an advancement of a flight with a VNAV target leaves
\* vertical_rate = sign(e) * 1500 ft/min if |e| >= 1000 ft,
\* sign(e) * 1500 * |e| / 1000 if 100 < |e| < 1000, and 0 if |e| <= 100, for
\* the error e = target - altitude before the step, and integrates that rate;
\* a flight without a target keeps vertical_rate 0.  So |vertical_rate| is
\* at most 1500 ft/min in every state and the rate never points away from
\* the target.
C24_VerticalShaping ==
  /\ [][emitted' = emitted + 1 =>
          LET k  == ((emitted + tick.i) % Len(flights)) + 1
              fl == flights[k]
              e  == fl.vnav_target_alt - fl.altitude
              v  == flights'[k].vrate
          IN  /\ fl.vnav_target_alt = None => v = 0
              /\ fl.vnav_target_alt # None =>
                   /\ e >= 1000000 => v = 150000
                   /\ e <= -1000000 => v = -150000
                   /\ (100000 < e /\ e < 1000000) => v = (150 * e) \div 1000
                   /\ (-1000000 < e /\ e < -100000) => v = -((150 * (-e)) \div 1000)
                   /\ (-100000 <= e /\ e <= 100000) => v = 0
              /\ flights'[k].altitude = fl.altitude + TruncDiv(v * 100, 6000)]_vars
  /\ [](\A k \in 1..Len(flights) :
          /\ Abs(flights[k].vrate) <= 150000
          /\ flights[k].vnav_target_alt = None => flights[k].vrate = 0
          /\ flights[k].vnav_target_alt # None =>
               /\ flights[k].vrate > 0 => flights[k].vnav_target_alt > flights[k].altitude
               /\ flights[k].vrate < 0 => flights[k].vnav_target_alt < flights[k].altitude)

\* A descent inside the last 1000 ft: the rate is negative and smaller than
\* 1500 ft/min in magnitude, and the flight is still above its target.
C24_Witness ==
  /\ flights[1].vnav_target_alt = 12000000
  /\ flights[1].altitude < 12500000
  /\ flights[1].altitude > 12400000
  /\ flights[1].vrate < 0
  /\ flights[1].vrate > -75000
  /\ flights[2].vrate = 0
  /\ emitted >= 4

C25_LateralSteering ==
  [][\A dt \in {100, 1000} : \A air \in UnitAir : \A steer \in UnitSteer :
       (/\ steer.brg # None
        /\ unit.left > 0
        /\ unit'.fl.trail # unit.fl.trail
        /\ unit'.fl.heading = SteerHeading(unit.fl, dt, steer.brg, steer.drift)
        /\ unit' = [unit EXCEPT
                      !.fl = StepFlight(unit.fl, dt, air[1], air[2], steer.brg,
                                        air[3], steer.drift),
                      !.left = unit.left - 1])
       => LET h      == unit.fl.heading
              cw     == (steer.brg - h) % 7200
              ccw    == (h - steer.brg) % 7200
              limit  == (unit.fl.max_turn_rate_dps * dt) \div 5000
              turned == Min(Min(cw, ccw), limit)
              right  == (h + turned) % 7200
              left   == (h - turned) % 7200
          IN  /\ cw < ccw => unit'.fl.heading = right
              /\ ccw < cw => unit'.fl.heading = left
              /\ cw = ccw => unit'.fl.heading \in {left, right}
              /\ Min(cw, ccw) <= limit => unit'.fl.heading = steer.brg
              /\ Min((unit'.fl.heading - h) % 7200, (h - unit'.fl.heading) % 7200)
                   <= limit]_vars

\* Two steps of 1 s toward 5 degrees from 359.5 at 3 deg/s: the first turned
\* the full 3 degrees clockwise across north, the second the remaining 2.5 and
\* reached the bearing exactly.
C25_Witness ==
  /\ unit.phase = "run"
  /\ unit.left = 0
  /\ unit.fl.ac_type = "A320"
  /\ unit.fl.turn_rate_dps = 250
  /\ unit.fl.heading = 100


\* C26: an advancement that injects the negative-altitude or the
\* impossible-speed fault emits altitude = -|altitude| or a speed within
\* 1500..3000 kt and leaves the flight's altitude, speed, heading, turn rate,
\* bank, trail and waypoint index as the step left them; an advancement without
\* injection reports the flight's own altitude and speed.
C26_EventOnlyFaults ==
  [][emitted' = emitted + 1 =>
       LET k    == last_adv'.idx
           kind == last_adv'.kind
           evt  == exported'.last
       IN  /\ kind \in {"alt_neg", "speed_impossible"} =>
                \E d \in {-20, 20} : \E s \in { Stepped(Guide(flights[k]), d) } :
                  /\ flights'[k].altitude = s.altitude
                  /\ flights'[k].speed = s.speed
                  /\ flights'[k].heading = s.heading
                  /\ flights'[k].turn_rate_dps = s.turn_rate_dps
                  /\ flights'[k].bank_deg = s.bank_deg
                  /\ flights'[k].trail = s.trail
                  /\ flights'[k].wp_index = s.wp_index
                  /\ kind = "alt_neg" =>
                       /\ evt.altitude = -Abs(RoundTo(s.altitude, 100))
                       /\ evt.speed_knots = RoundTo(s.speed, 10)
                  /\ kind = "speed_impossible" =>
                       /\ evt.speed_knots >= 150000 /\ evt.speed_knots <= 300000
                       /\ evt.altitude = RoundTo(s.altitude, 100)
           /\ kind = "none" =>
                /\ evt.altitude = RoundTo(flights'[k].altitude, 100)
                /\ evt.speed_knots = RoundTo(flights'[k].speed, 10)]_vars

\* The guided flight was emitted at an impossible speed and then advanced
\* again without injection: its new event reports its own 300 kt, a speed jump
\* against the cached event.
C26_Witness ==
  /\ last_adv = [idx |-> 1, kind |-> "none"]
  /\ emitted = 3
  /\ exported.last.speed_knots = 30000
  /\ exported.last.anomaly = T_250_10K \o << ";" >> \o T_SPEED_JUMP
  /\ flights[1].speed = 30000
  /\ "A1" \in DOMAIN last_inject_ts


\* C27: at the end of every advancement the anomaly field of the emitted and
\* cached event equals the anomaly tag of the advanced flight, so an event
\* the injector corrupted is never emitted with an empty anomaly field.
C27_EventCarriesTag ==
  [][emitted' = emitted + 1 =>
       LET k == last_adv'.idx
       IN  /\ exported'.last.anomaly = flights'[k].anomaly
           /\ last_events'[flights'[k].icao].anomaly = flights'[k].anomaly
           /\ last_adv'.kind # "none" => exported'.last.anomaly # << >>]_vars


\* C28: in still air a step that flies heading 0 increases the latitude and
\* leaves the longitude, a step that flies heading 90 increases the longitude
\* and leaves the latitude, and a step of a flight whose heading is the
\* commanded bearing to a waypoint due north or due east brings it closer to
\* the waypoint.
C28_CompassConvention ==
  [][\A dt \in {100, 1000} : \A b \in CompassSteer(unit.fl) :
       (/\ unit.left > 0
        /\ unit' = [unit EXCEPT
                      !.fl = StepFlight(unit.fl, dt, None, 0, b, None, 0),
                      !.left = unit.left - 1])
       => LET f == unit.fl
              g == unit'.fl
          IN  /\ g.heading = 0 => (g.lat > f.lat /\ g.lon = f.lon)
              /\ g.heading = 1800 => (g.lon > f.lon /\ g.lat = f.lat)
              /\ \A wp \in CompassWps :
                   (f.heading = b /\ b = bearing_to(f.lat, f.lon, wp[1], wp[2]))
                   => Abs(wp[1] - g.lat) + Abs(wp[2] - g.lon)
                        < Abs(wp[1] - f.lat) + Abs(wp[2] - f.lon)]_vars


\* C29 as stated: for every QNH from 985 to 1030 hPa the barometric offset
\* |(1013.25 - qnh) * 27| is at most 400 ft, and with no anomaly kind
\* configured no emitted event is tagged ALT_MISMATCH.
C29_AltMismatchOnlyInjected ==
  anomaly_kinds = << >> =>
    /\ \A k \in 1..Len(flights) :
         Abs((101325 - flights[k].qnh_hpa) * 270) <= 400000
    /\ \A id \in DOMAIN last_events :
         ~Contains(last_events[id].anomaly, T_ALT_MISMATCH)

\* C29: for every QNH from 985 to 1030 hPa the barometric offset is at most
\* 762.75 ft; with no anomaly kind configured every event of a flight whose
\* QNH is at most 998.4 or at least 1028.1 hPa is tagged ALT_MISMATCH and no
\* event of a flight whose QNH lies from 998.5 to 1028.0 hPa is.
C29_AltMismatchByQnh ==
  anomaly_kinds = << >> =>
    \A k \in 1..Len(flights) :
      LET qnh == flights[k].qnh_hpa
          id  == flights[k].icao
      IN  /\ Abs((101325 - qnh) * 270) <= 762750
          /\ id \in DOMAIN last_events =>
               /\ (qnh <= 99840 \/ qnh >= 102810) =>
                    Contains(last_events[id].anomaly, T_ALT_MISMATCH)
               /\ (qnh >= 99850 /\ qnh <= 102800) =>
                    ~Contains(last_events[id].anomaly, T_ALT_MISMATCH)

\* With no anomaly kind configured and the anomalies toggle on, the flight
\* created at QNH 998.4 hPa has been advanced twice and its cached event is
\* tagged ALT_MISMATCH.
C29_Witness ==
  /\ anomaly_kinds = << >>
  /\ anomalies_enabled
  /\ flights[1].qnh_hpa = 99840
  /\ Len(flights[1].trail) = 2
  /\ Contains(last_events["A1"].anomaly, T_ALT_MISMATCH)

=============================================================================
